---- MODULE Spec2Model ----
(***************************************************************************)
(* Model of the mock enrollment endpoint of the registrar API              *)
(* (registrar/apps/api/v0/views.py, MockProgramEnrollmentView.post).       *)
(*                                                                         *)
(* One behaviour is one HTTP POST: authentication, resolution of the       *)
(* program, the access check, the checks on the request body and then the  *)
(* loop over the submitted enrollees, one iteration per step.              *)
(***************************************************************************)
EXTENDS Integers, Sequences, FiniteSets

----------------------------------------------------------------------------
(* Bounds of the explored requests *)

\* longest request body whose items are all enumerated
MaxLen == 3
\* longest pattern that is repeated to build a body of 25 or 26 items
PatLen == 1

----------------------------------------------------------------------------
(* Program constants *)

\* `if len(request.data) > 25`
BatchLimit == 25

\* error_status = None
None == 0
HTTP_200_OK == 200
HTTP_207_MULTI_STATUS == 207
HTTP_400_BAD_REQUEST == 400
HTTP_401_UNAUTHORIZED == 401
HTTP_403_FORBIDDEN == 403
HTTP_404_NOT_FOUND == 404
HTTP_413_REQUEST_ENTITY_TOO_LARGE == 413
HTTP_422_UNPROCESSABLE_ENTITY == 422
HTTP_500_INTERNAL_SERVER_ERROR == 500

\* the tags the view writes into the result map
ErrorTags == {"duplicated", "invalid-status", "internal-error"}

----------------------------------------------------------------------------
(* Fixture data (registrar/apps/api/v0/data.py) *)

\* program_key -> is the managing organization metadata_readable
FAKE_PROGRAM_DICT == [readable_program |-> TRUE, unreadable_program |-> FALSE]

\* the program_key values a request is made with; the last one is unknown
ProgramKeys == {"readable_program", "unreadable_program", "no_such_program"}

----------------------------------------------------------------------------
(* Request bodies *)

\* the choices of the serializer's status field
Statuses == {"enrolled", "pending"}

\* A list element as parsed from JSON.  dict: is it a JSON object;
\* key_kind: "absent" (no student_key member), "str" (a string, "" included)
\* or "list" (a JSON array, which Python cannot hash);
\* status_kind: "absent" or "str".
Enrollee(d, kk, k, sk, s) ==
    [dict |-> d, key_kind |-> kk, student_key |-> k, status_kind |-> sk, status |-> s]

NonRecord == Enrollee(FALSE, "absent", "", "absent", "")

KeyChoices == {<<"absent", "">>, <<"str", "a">>, <<"str", "b">>, <<"str", "">>,
               <<"list", "">>}
StatusChoices == {<<"absent", "">>, <<"str", "enrolled">>, <<"str", "pending">>,
                  <<"str", "bogus">>}

Enrollees ==
    {Enrollee(TRUE, kc[1], kc[2], sc[1], sc[2]) : kc \in KeyChoices, sc \in StatusChoices}
    \cup {NonRecord}

Repeat(pattern, n) == [i \in 1..n |-> pattern[((i - 1) % Len(pattern)) + 1]]

ShortLists == UNION {[1..n -> Enrollees] : n \in 0..MaxLen}
LongLists ==
    {Repeat(p, n) : p \in UNION {[1..m -> Enrollees] : m \in 1..PatLen},
                    n \in {BatchLimit, BatchLimit + 1}}

\* request.data: a list of elements, or some other JSON value
Bodies ==
    {[is_list |-> TRUE, items |-> l] : l \in ShortLists \cup LongLists}
    \cup {[is_list |-> FALSE, items |-> <<>>]}

----------------------------------------------------------------------------
(* RequestedLearnerProgramEnrollmentSerializer (registrar/apps/api/serializers.py) *)

StatusIsValid(enrollee) ==
    enrollee.status_kind = "str" /\ enrollee.status \in Statuses

StudentKeyIsValid(enrollee) ==
    enrollee.key_kind = "str" /\ enrollee.student_key # ""

\* enrollee_serializer.errors: the names of the fields that failed
SerializerErrors(enrollee) ==
    IF ~enrollee.dict
    THEN {"non_field_errors"}
    ELSE (IF StatusIsValid(enrollee) THEN {} ELSE {"status"})
         \cup (IF StudentKeyIsValid(enrollee) THEN {} ELSE {"student_key"})

\* enrollee_serializer.is_valid()
IsValid(enrollee) == SerializerErrors(enrollee) = {}

\* enrollee_serializer.data of a valid enrollee
SerializerData(enrollee) ==
    [student_key |-> enrollee.student_key, status |-> enrollee.status]

----------------------------------------------------------------------------
(* The body of MockProgramEnrollmentView.post *)

EmptyResponse == [k \in {} |-> ""]

\* response[key] = value
Put(response, key, value) ==
    [k \in DOMAIN response \cup {key} |-> IF k = key THEN value ELSE response[k]]

Outcome(response, error_status, raised) ==
    [response |-> response, error_status |-> error_status, raised |-> raised]

\* ValidBranch with error_status set before the membership test
ValidBranch_FlagsEveryItem(response, error_status, enrollee) ==
    LET data == SerializerData(enrollee)
        student_key == data.student_key
    IN  IF student_key \in DOMAIN response
        THEN Outcome(Put(response, student_key, "duplicated"),
                     HTTP_207_MULTI_STATUS, "none")
        ELSE Outcome(Put(response, student_key, data.status),
                     HTTP_207_MULTI_STATUS, "none")

\* ValidBranch without the membership test: a repeated key is overwritten
ValidBranch_Overwrites(response, error_status, enrollee) ==
    LET data == SerializerData(enrollee)
    IN  Outcome(Put(response, data.student_key, data.status), error_status, "none")

\* ValidBranch that tags a repeated key and forgets error_status
ValidBranch_ForgetsStatus(response, error_status, enrollee) ==
    LET data == SerializerData(enrollee)
        student_key == data.student_key
    IN  IF student_key \in DOMAIN response
        THEN Outcome(Put(response, student_key, "duplicated"), error_status, "none")
        ELSE Outcome(Put(response, student_key, data.status), error_status, "none")

\* the branch of a valid enrollee (lines 171-177)
ValidBranch(response, error_status, enrollee) ==
    LET data == SerializerData(enrollee)
        student_key == data.student_key
    IN  IF student_key \in DOMAIN response
        THEN Outcome(Put(response, student_key, "duplicated"),
                     HTTP_207_MULTI_STATUS, "none")
        ELSE Outcome(Put(response, student_key, data.status), error_status, "none")

\* InvalidBranch with the two tags exchanged
InvalidBranch_TagsSwapped(response, error_status, enrollee) ==
    IF ~enrollee.dict
    THEN Outcome(response, error_status, "TypeError")
    ELSE IF enrollee.key_kind = "absent"
    THEN Outcome(response, error_status, "KeyError")
    ELSE IF enrollee.key_kind = "list"
    THEN Outcome(response, error_status, "TypeError")
    ELSE IF "status" \in SerializerErrors(enrollee)
    THEN Outcome(Put(response, enrollee.student_key, "internal-error"),
                 HTTP_207_MULTI_STATUS, "none")
    ELSE Outcome(Put(response, enrollee.student_key, "invalid-status"),
                 HTTP_207_MULTI_STATUS, "none")

\* the branch of an invalid enrollee (lines 179-188): enrollee['student_key']
\* raises TypeError on an element that is no dict and KeyError on a dict with
\* no such member; a list as a dict key raises TypeError.  Only KeyError is
\* caught.
InvalidBranch(response, error_status, enrollee) ==
    IF ~enrollee.dict
    THEN Outcome(response, error_status, "TypeError")
    ELSE IF enrollee.key_kind = "absent"
    THEN Outcome(response, error_status, "KeyError")
    ELSE IF enrollee.key_kind = "list"
    THEN Outcome(response, error_status, "TypeError")
    ELSE IF "status" \in SerializerErrors(enrollee)
    THEN Outcome(Put(response, enrollee.student_key, "invalid-status"),
                 HTTP_207_MULTI_STATUS, "none")
    ELSE Outcome(Put(response, enrollee.student_key, "internal-error"),
                 HTTP_207_MULTI_STATUS, "none")

\* one iteration of `for enrollee in request.data` (lines 165-188)
ProcessEnrollee(response, error_status, enrollee) ==
    IF IsValid(enrollee)
    THEN ValidBranch(response, error_status, enrollee)
    ELSE InvalidBranch(response, error_status, enrollee)

\* `if not isinstance(request.data, list)` (line 157)
IsList(body) == body.is_list

\* TooLarge with >= for >
TooLarge_OffByOne(body) == Len(body.items) >= BatchLimit

\* `if len(request.data) > 25` (line 160)
TooLarge(body) == Len(body.items) > BatchLimit

\* the `program` property (lines 76-79): Http404 for an unknown key
ProgramExists(key) == key \in DOMAIN FAKE_PROGRAM_DICT

\* self.program.managing_organization.metadata_readable (line 151)
MetadataReadable(key) == FAKE_PROGRAM_DICT[key]

\* ProgramCheck with a lookup that answers an unknown key with PermissionDenied
ProgramCheck_UnknownForbidden(key) ==
    IF ~ProgramExists(key) THEN HTTP_403_FORBIDDEN
    ELSE IF ~MetadataReadable(key) THEN HTTP_403_FORBIDDEN
    ELSE None

\* what the program and access checks of post raise (lines 151-152)
ProgramCheck(key) ==
    IF ~ProgramExists(key) THEN HTTP_404_NOT_FOUND
    ELSE IF ~MetadataReadable(key) THEN HTTP_403_FORBIDDEN
    ELSE None

\* Response(response, error_status): a status of None is 200 (line 190)
ResponseStatus(error_status) ==
    IF error_status = None THEN HTTP_200_OK ELSE error_status

TextBody(text) == [kind |-> "text", text |-> text, map |-> EmptyResponse]
MapBody(map) == [kind |-> "map", text |-> "", map |-> map]
ErrorBody == [kind |-> "error", text |-> "", map |-> EmptyResponse]
NoBody == [kind |-> "none", text |-> "", map |-> EmptyResponse]

----------------------------------------------------------------------------
(* The request as a state machine *)

VARIABLES
    authenticated,   \* did the caller present valid credentials
    program_key,     \* kwargs['program_key']
    data,            \* request.data
    pc,              \* "request", "post", "data", "loop", "done"
    idx,             \* position of the next enrollee of the loop
    response,        \* the local `response` of post
    error_status,    \* the local `error_status` of post
    http_status,     \* status of the HTTP response, None until sent
    http_body        \* body of the HTTP response

vars == <<authenticated, program_key, data, pc, idx, response, error_status,
          http_status, http_body>>

Init ==
    /\ authenticated \in BOOLEAN
    /\ program_key \in ProgramKeys
    /\ data \in Bodies
    /\ pc = "request"
    /\ idx = 1
    /\ response = EmptyResponse
    /\ error_status = None
    /\ http_status = None
    /\ http_body = NoBody

Finish(status, body) ==
    /\ pc' = "done"
    /\ http_status' = status
    /\ http_body' = body

\* permission_classes = (IsAuthenticated,)
Authenticate ==
    /\ pc = "request"
    /\ IF authenticated
       THEN pc' = "post" /\ UNCHANGED <<http_status, http_body>>
       ELSE Finish(HTTP_401_UNAUTHORIZED, ErrorBody)
    /\ UNCHANGED <<authenticated, program_key, data, idx, response, error_status>>

\* lines 151-155
CheckProgram ==
    /\ pc = "post"
    /\ IF ProgramCheck(program_key) = None
       THEN pc' = "data" /\ UNCHANGED <<http_status, http_body>>
       ELSE Finish(ProgramCheck(program_key), ErrorBody)
    /\ UNCHANGED <<authenticated, program_key, data, idx, response, error_status>>

\* lines 157-163
CheckData ==
    /\ pc = "data"
    /\ IF ~IsList(data)
       THEN Finish(HTTP_400_BAD_REQUEST, ErrorBody)
       ELSE IF TooLarge(data)
       THEN Finish(HTTP_413_REQUEST_ENTITY_TOO_LARGE, TextBody("enrollement limit 25"))
       ELSE pc' = "loop" /\ UNCHANGED <<http_status, http_body>>
    /\ UNCHANGED <<authenticated, program_key, data, idx, response, error_status>>

\* lines 165-188, one enrollee
Iterate ==
    /\ pc = "loop"
    /\ idx <= Len(data.items)
    /\ LET out == ProcessEnrollee(response, error_status, data.items[idx])
       IN  /\ response' = out.response
           /\ error_status' = out.error_status
           /\ IF out.raised = "KeyError"
              THEN Finish(HTTP_422_UNPROCESSABLE_ENTITY, TextBody("student_key required"))
              ELSE IF out.raised = "TypeError"
              THEN Finish(HTTP_500_INTERNAL_SERVER_ERROR, ErrorBody)
              ELSE pc' = "loop" /\ UNCHANGED <<http_status, http_body>>
    /\ idx' = idx + 1
    /\ UNCHANGED <<authenticated, program_key, data>>

\* line 190
Return ==
    /\ pc = "loop"
    /\ idx > Len(data.items)
    /\ Finish(ResponseStatus(error_status), MapBody(response))
    /\ UNCHANGED <<authenticated, program_key, data, idx, response, error_status>>

Next == Authenticate \/ CheckProgram \/ CheckData \/ Iterate \/ Return

Spec == Init /\ [][Next]_vars

----------------------------------------------------------------------------
(* post as a function of the request body, for comparing two requests *)

RECURSIVE Loop(_, _, _, _)
\* the loop of lines 165-190 from enrollee i on
Loop(items, i, resp, err) ==
    IF i > Len(items)
    THEN [status |-> ResponseStatus(err), body |-> MapBody(resp)]
    ELSE LET out == ProcessEnrollee(resp, err, items[i])
         IN  IF out.raised = "KeyError"
             THEN [status |-> HTTP_422_UNPROCESSABLE_ENTITY,
                   body |-> TextBody("student_key required")]
             ELSE IF out.raised = "TypeError"
             THEN [status |-> HTTP_500_INTERNAL_SERVER_ERROR, body |-> ErrorBody]
             ELSE Loop(items, i + 1, out.response, out.error_status)

\* lines 154-190 for an authenticated caller on a readable program
Post(body) ==
    IF ~IsList(body)
    THEN [status |-> HTTP_400_BAD_REQUEST, body |-> ErrorBody]
    ELSE IF TooLarge(body)
    THEN [status |-> HTTP_413_REQUEST_ENTITY_TOO_LARGE,
          body |-> TextBody("enrollement limit 25")]
    ELSE Loop(body.items, 1, EmptyResponse, None)

----------------------------------------------------------------------------
(* Vocabulary of the properties *)

Items == data.items
Done == pc = "done"

\* the caller is authenticated and the program exists and is readable
Admitted ==
    /\ authenticated
    /\ program_key \in DOMAIN FAKE_PROGRAM_DICT
    /\ FAKE_PROGRAM_DICT[program_key]

\* an admitted request whose body is a list within the batch limit
AdmittedBatch == Admitted /\ data.is_list /\ Len(Items) <= BatchLimit

HasStringKey(e) == e.dict /\ e.key_kind = "str"
HasNoKey(e) == e.dict /\ e.key_kind = "absent"

\* positions of the batch that carry the string k as student_key
Occurrences(items, k) == {i \in 1..Len(items) : HasStringKey(items[i]) /\ items[i].student_key = k}

AllValid == \A i \in 1..Len(Items) : IsValid(Items[i])

\* the state machine ends as the function Post says
StepsAgreeWithPost ==
    (Done /\ Admitted) => (http_status = Post(data).status /\ http_body = Post(data).body)

----------------------------------------------------------------------------
(* Properties *)

\* C1: an admitted batch of at most 25 valid records with pairwise distinct
\* student_key values is answered 200 with a result map that has exactly one
\* entry per submission, each student_key mapped to the status submitted
\* for it.
C1_Pre ==
    /\ AdmittedBatch
    /\ AllValid
    /\ \A i, j \in 1..Len(Items) : i # j => Items[i].student_key # Items[j].student_key

C1_UniqueValidBatchSucceeds ==
    (Done /\ C1_Pre) =>
        /\ http_status = HTTP_200_OK
        /\ http_body.kind = "map"
        /\ DOMAIN http_body.map = {Items[i].student_key : i \in 1..Len(Items)}
        /\ Cardinality(DOMAIN http_body.map) = Len(Items)
        /\ \A i \in 1..Len(Items) : http_body.map[Items[i].student_key] = Items[i].status

C1_Witness ==
    /\ Done /\ C1_Pre
    /\ Len(Items) = 2
    /\ Items[1].status # Items[2].status
    /\ http_status = HTTP_200_OK

\* C4: in an admitted batch of at most 25 valid items, a student_key that
\* has occurred twice or more among the items processed so far is mapped to
\* "duplicated" (its first status is overwritten, later occurrences keep the
\* tag) and the aggregate is 207; so the response is 207 with that key
\* mapped to "duplicated".
C4_Pre == AdmittedBatch /\ AllValid

C4_RepeatedKeyDuplicated ==
    (C4_Pre /\ pc \in {"loop", "done"}) =>
        \A k \in {Items[i].student_key : i \in 1..Len(Items)} :
            LET seen == {i \in Occurrences(Items, k) : i < idx}
            IN  /\ Cardinality(seen) >= 2 =>
                      /\ k \in DOMAIN response
                      /\ response[k] = "duplicated"
                      /\ error_status = HTTP_207_MULTI_STATUS
                /\ (Done /\ Cardinality(Occurrences(Items, k)) >= 2) =>
                      /\ http_status = HTTP_207_MULTI_STATUS
                      /\ http_body.kind = "map"
                      /\ http_body.map[k] = "duplicated"

C4_Witness ==
    /\ Done /\ C4_Pre
    /\ Len(Items) = 3
    /\ Cardinality(Occurrences(Items, "a")) = 3
    /\ http_status = HTTP_207_MULTI_STATUS
    /\ http_body.map["a"] = "duplicated"

\* C5: an admitted request whose body is a list of more than 25 items is
\* answered 413 with the body 'enrollement limit 25' and no result map, and
\* none of its items is processed, whatever the items are; a list of
\* exactly 25 items is never answered 413.
C5_BatchLimit ==
    (Admitted /\ data.is_list) =>
        /\ Len(Items) > BatchLimit =>
              /\ idx = 1
              /\ response = EmptyResponse
              /\ Done => /\ http_status = HTTP_413_REQUEST_ENTITY_TOO_LARGE
                         /\ http_body = TextBody("enrollement limit 25")
        /\ Len(Items) = BatchLimit => http_status # HTTP_413_REQUEST_ENTITY_TOO_LARGE

C5_Witness ==
    /\ Done /\ Admitted /\ data.is_list
    /\ Len(Items) = BatchLimit + 1
    /\ \E i \in 1..Len(Items) : ~IsValid(Items[i])
    /\ http_status = HTTP_413_REQUEST_ENTITY_TOO_LARGE

\* C8: for an authenticated caller the program and access checks come before
\* every check of the body: an unknown program_key is answered 404 (never
\* 403) and an unreadable program 403, whatever the body is and without any
\* item being processed, so 200, 207, 413 and 422 are only returned for an
\* existing, readable program.
C8_ProgramChecksFirst ==
    (Done /\ authenticated) =>
        /\ program_key \notin DOMAIN FAKE_PROGRAM_DICT =>
              http_status = HTTP_404_NOT_FOUND /\ idx = 1
        /\ (program_key \in DOMAIN FAKE_PROGRAM_DICT /\ ~FAKE_PROGRAM_DICT[program_key]) =>
              http_status = HTTP_403_FORBIDDEN /\ idx = 1
        /\ http_status \in {HTTP_200_OK, HTTP_207_MULTI_STATUS,
                            HTTP_413_REQUEST_ENTITY_TOO_LARGE,
                            HTTP_422_UNPROCESSABLE_ENTITY} => Admitted

C8_Witness ==
    /\ Done /\ authenticated
    /\ program_key \notin DOMAIN FAKE_PROGRAM_DICT
    /\ data.is_list /\ Len(Items) > BatchLimit
    /\ \E i \in 1..Len(Items) : HasNoKey(Items[i])
    /\ http_status = HTTP_404_NOT_FOUND

\* C9: after every iteration of the loop the aggregate is 207 exactly when
\* the result map holds one of the tags "duplicated", "invalid-status",
\* "internal-error", and is unset exactly when every value of the map is the
\* valid status some processed item submitted for that key; a 200/207
\* response carries that aggregate and that map; and a key mapped to a tag
\* is never mapped back to a status by a later item.
C9_Tagged == \E k \in DOMAIN response : response[k] \in ErrorTags

C9_AllSubmitted ==
    \A k \in DOMAIN response :
        /\ response[k] \in Statuses
        /\ \E i \in 1..(idx - 1) :
              /\ i <= Len(Items)
              /\ IsValid(Items[i])
              /\ Items[i].student_key = k
              /\ Items[i].status = response[k]

C9_Inv ==
    /\ error_status \in {None, HTTP_207_MULTI_STATUS}
    /\ (error_status = HTTP_207_MULTI_STATUS) <=> C9_Tagged
    /\ (error_status = None) <=> C9_AllSubmitted
    /\ (Done /\ http_body.kind = "map") =>
          /\ http_body.map = response
          /\ http_status \in {HTTP_200_OK, HTTP_207_MULTI_STATUS}
          /\ (http_status = HTTP_207_MULTI_STATUS) <=> C9_Tagged
          /\ (http_status = HTTP_200_OK) <=> C9_AllSubmitted

C9_TagsStay ==
    \A k \in DOMAIN response :
        response[k] \in ErrorTags => (k \in DOMAIN response' /\ response'[k] \in ErrorTags)

C9_AggregateMatchesTags == [](C9_Inv) /\ [][C9_TagsStay]_vars

C9_Witness ==
    /\ Done
    /\ http_status = HTTP_207_MULTI_STATUS
    /\ \E k \in DOMAIN http_body.map : http_body.map[k] = "duplicated"
    /\ \E k \in DOMAIN http_body.map : http_body.map[k] \in Statuses
    /\ \E i \in 1..Len(Items) : HasStringKey(Items[i]) /\ ~StatusIsValid(Items[i])

\* C3 as amended: in an admitted batch of at most 25 items of which exactly
\* one has an invalid status and a string student_key while every other item
\* is valid, the response is 207; the invalid item's student_key is mapped
\* to "invalid-status" unless a later item carries the same student_key, and
\* then to "duplicated"; every other item's student_key is in the map, with
\* the submitted status when the key occurs once in the batch and with
\* "duplicated" when only valid items share it.
C3_InvalidAt(j) ==
    /\ HasStringKey(Items[j])
    /\ ~StatusIsValid(Items[j])
    /\ \A i \in 1..Len(Items) : i # j => IsValid(Items[i])

C3_Pre(j) == AdmittedBatch /\ C3_InvalidAt(j)

C3_InvalidStatusRecorded ==
    \A j \in 1..Len(Items) :
        (Done /\ C3_Pre(j)) =>
            LET bad == Items[j].student_key
                map == http_body.map
            IN  /\ http_status = HTTP_207_MULTI_STATUS
                /\ http_body.kind = "map"
                /\ bad \in DOMAIN map
                /\ map[bad] = IF \E i \in Occurrences(Items, bad) : i > j
                              THEN "duplicated" ELSE "invalid-status"
                /\ \A i \in 1..Len(Items) :
                      LET k == Items[i].student_key
                      IN  /\ k \in DOMAIN map
                          /\ Cardinality(Occurrences(Items, k)) = 1 /\ i # j =>
                                map[k] = Items[i].status
                          /\ Cardinality(Occurrences(Items, k)) > 1 /\ k # bad =>
                                map[k] = "duplicated"

C3_Witness ==
    /\ Done /\ Len(Items) = 3
    /\ C3_Pre(2)
    /\ Items[1].student_key # Items[2].student_key
    /\ Items[3].student_key = Items[2].student_key
    /\ http_status = HTTP_207_MULTI_STATUS
    /\ http_body.map[Items[2].student_key] = "duplicated"
    /\ http_body.map[Items[1].student_key] = Items[1].status

\* C3 as stated: in such a batch, wherever the invalid item stands, the
\* response is 207, the invalid item's student_key is mapped to
\* "invalid-status" and every other item appears under its own student_key
\* with its result (its status, or "duplicated" for a key several valid
\* items share).
C3_AsStated ==
    \A j \in 1..Len(Items) :
        (Done /\ C3_Pre(j)) =>
            LET bad == Items[j].student_key
                map == http_body.map
            IN  /\ http_status = HTTP_207_MULTI_STATUS
                /\ http_body.kind = "map"
                /\ bad \in DOMAIN map
                /\ map[bad] = "invalid-status"
                /\ \A i \in 1..Len(Items) : i # j =>
                      LET k == Items[i].student_key
                          others == Occurrences(Items, k) \ {j}
                      IN  /\ k \in DOMAIN map
                          /\ map[k] = IF Cardinality(others) = 1
                                      THEN Items[i].status ELSE "duplicated"

\* C2: an admitted batch of at most 25 items that contains an item with no
\* student_key is answered 422 with the body 'student_key required' and no
\* result map, wherever the item stands and whatever the other items are
\* (stated here for batches whose items are all records).
C2_MissingKeyAborts ==
    (/\ Done /\ AdmittedBatch
     /\ \A i \in 1..Len(Items) : Items[i].dict
     /\ \E i \in 1..Len(Items) : HasNoKey(Items[i])) =>
        /\ http_status = HTTP_422_UNPROCESSABLE_ENTITY
        /\ http_body = TextBody("student_key required")

\* C6: an admitted request whose body is not a list is answered 422, no
\* item is validated and no result map is returned.
C6_NonListIs422 ==
    (Done /\ Admitted /\ ~data.is_list) =>
        /\ http_status = HTTP_422_UNPROCESSABLE_ENTITY
        /\ idx = 1
        /\ http_body.kind # "map"

\* C7: every enrollment POST of an authenticated caller is answered with one
\* of 200, 207, 403, 404, 413, 422, whatever the body is.
C7_StatusesOfPost ==
    (Done /\ authenticated) =>
        http_status \in {HTTP_200_OK, HTTP_207_MULTI_STATUS, HTTP_403_FORBIDDEN,
                         HTTP_404_NOT_FOUND, HTTP_413_REQUEST_ENTITY_TOO_LARGE,
                         HTTP_422_UNPROCESSABLE_ENTITY}

\* Reorderings of a batch: every permutation of a short batch, the reversal
\* and the rotation by one of a long one.
Permutations(n) == {f \in [1..n -> 1..n] : \A a, b \in 1..n : a # b => f[a] # f[b]}

Reorderings(items) ==
    LET n == Len(items)
    IN  IF n <= MaxLen
        THEN {[i \in 1..n |-> items[f[i]]] : f \in Permutations(n)}
        ELSE {[i \in 1..n |-> items[n + 1 - i]], [i \in 1..n |-> items[(i % n) + 1]]}

\* C10: for an admitted batch of records, every reordering of the items is
\* answered with the same HTTP status and, when a result map is returned,
\* with a map over the same student_keys in which every key that occurs
\* once in the batch has the same value.
C10_OrderIndependent ==
    (Done /\ Admitted /\ data.is_list /\ \A i \in 1..Len(Items) : Items[i].dict) =>
        \A q \in Reorderings(Items) :
            LET other == Post([is_list |-> TRUE, items |-> q])
            IN  /\ other.status = http_status
                /\ other.body.kind = http_body.kind
                /\ DOMAIN other.body.map = DOMAIN http_body.map
                /\ \A k \in DOMAIN http_body.map :
                      Cardinality(Occurrences(Items, k)) = 1 =>
                          other.body.map[k] = http_body.map[k]

====
